---- MODULE Spec2Model ----
(***************************************************************************)
(* Model of dancing/bracket_analysis.py: the BracketAnalysis object (its   *)
(* fields num_pools, pools, winning_brackets, all_results), the loop of    *)
(* simulate_pools taken one pool at a time, and the three reports          *)
(* analyze_upsets, find_common_underdogs and analyze_champion_picks.       *)
(*                                                                         *)
(* Bracket, Pool and create_teams_from_standings live in modules of the    *)
(* repository that are not part of the sources at hand; they are modelled  *)
(* from their described contract as a collaborator that is either          *)
(* stochastic (any outcome of a small universe at every call) or a         *)
(* deterministic stub (fixed outcomes, fixed ranking).                     *)
(*                                                                         *)
(* Numbers: Python floats that are quotients of small integers are carried *)
(* as exact fractions [n, d] in lowest terms; Double(k, n) is the IEEE-754 *)
(* binary64 value of the true division k / n and DAdd the binary64 sum,    *)
(* used where the exact value of a float sum is the question.              *)
(***************************************************************************)
EXTENDS Integers, Sequences, FiniteSets, TLC

\* ------------------------------------------------------------------ bounds
MaxPools == 2
MaxEntries == 2
GamesPerBracket == 2
LongPools == 6
MaxRuns == 2

\* --------------------------------------------------------------- fractions
RECURSIVE GCD(_, _)
GCD(a, b) == IF b = 0 THEN a ELSE GCD(b, a % b)

Frac(n, d) == LET g == GCD(n, d) IN [n |-> n \div g, d |-> d \div g]

FracAdd(x, y) == Frac(x.n * y.d + y.n * x.d, x.d * y.d)

FracMul(x, y) == Frac(x.n * y.n, x.d * y.d)

FracLess(x, y) == x.n * y.d < y.n * x.d

\* ----------------------------------------------------- binary64 numbers
\* A positive double is [e, m]: m the 53 bits of its significand, the
\* leading one first, and its value m[1].m[2]...m[53] (binary) times 2^e.
MantissaBits == 53

RECURSIVE Pow2Mod(_, _)
\* 2^q modulo b
Pow2Mod(q, b) ==
    IF q = 0 THEN 1 % b
    ELSE LET h == Pow2Mod(q \div 2, b)
         IN  (((h * h) % b) * (IF q % 2 = 1 THEN 2 ELSE 1)) % b

\* Round to nearest, ties to even: the significand m followed by the bit
\* `guard` and, when `sticky`, by further bits that are not all zero.
RoundNearestEven(e, m, guard, sticky) ==
    IF guard = 1 /\ (sticky \/ m[MantissaBits] = 1)
    THEN IF \A p \in DOMAIN m : m[p] = 1
         THEN [e |-> e + 1, m |-> [p \in DOMAIN m |-> IF p = 1 THEN 1 ELSE 0]]
         ELSE LET z == CHOOSE p \in DOMAIN m :
                          m[p] = 0 /\ \A q \in DOMAIN m : q > p => m[q] = 1
              IN  [e |-> e,
                   m |-> [p \in DOMAIN m |->
                            IF p < z THEN m[p] ELSE IF p = z THEN 1 ELSE 0]]
    ELSE [e |-> e, m |-> m]

\* The double k / n of two positive integers (Python's true division, which
\* rounds the exact quotient once).
Double(k, n) ==
    LET down == IF k >= n THEN 0
                ELSE CHOOSE u \in 1..20 : k * 2^u >= n /\ k * 2^(u - 1) < n
        up == IF k < n THEN 0
              ELSE CHOOSE u \in 0..20 : n * 2^u <= k /\ n * 2^(u + 1) > k
        a == k * 2^down
        b == n * 2^up
        rem(q) == (a * Pow2Mod(q, b)) % b
        bit(p) == IF p = 1 THEN 1 ELSE IF 2 * rem(p - 2) >= b THEN 1 ELSE 0
    IN  RoundNearestEven(up - down, [p \in 1..MantissaBits |-> bit(p)],
                         bit(MantissaBits + 1), rem(MantissaBits) # 0)

RECURSIVE CarryInto(_, _, _)
\* The carry out of the positions p, p+1, ... of the sum of the bit strings
\* x and y (most significant bit first, of one length).
CarryInto(x, y, p) ==
    IF p > Len(x) THEN 0 ELSE (x[p] + y[p] + CarryInto(x, y, p + 1)) \div 2

\* The sum of two positive doubles, rounded once.
DAdd(x, y) ==
    LET hi == IF x.e >= y.e THEN x ELSE y
        lo == IF x.e >= y.e THEN y ELSE x
        d == hi.e - lo.e
        zeros == [k \in 1..d |-> 0]
        u == hi.m \o zeros
        v == zeros \o lo.m
        n == Len(u)
        carries == [p \in 1..(n + 1) |-> CarryInto(u, v, p)]
        total == << carries[1] >>
                 \o [p \in 1..n |-> (u[p] + v[p] + carries[p + 1]) % 2]
        bits == IF total[1] = 1 THEN total ELSE Tail(total)
        e == IF total[1] = 1 THEN hi.e + 1 ELSE hi.e
    IN  RoundNearestEven(e, SubSeq(bits, 1, MantissaBits),
                         IF Len(bits) > MantissaBits THEN bits[MantissaBits + 1] ELSE 0,
                         \E p \in (MantissaBits + 2)..Len(bits) : bits[p] = 1)

RECURSIVE DSum(_)
\* The sum of a non-empty column of doubles, taken from the first row down.
DSum(column) ==
    IF Len(column) = 1 THEN column[1]
    ELSE DAdd(DSum(SubSeq(column, 1, Len(column) - 1)), column[Len(column)])

\* 1.0
\* (DAdd, DSum and DOne serve to state what the float sum of a column is.)
DOne == [e |-> 0, m |-> [p \in 1..MantissaBits |-> IF p = 1 THEN 1 ELSE 0]]

\* ------------------------------------------------------------ round tables
ROUND_ORDER ==
    << "First Round", "Second Round", "Sweet 16", "Elite 8", "Final Four",
       "Championship" >>

Rounds == { ROUND_ORDER[k] : k \in 1..Len(ROUND_ORDER) }

\* {round_name: i for i, round_name in enumerate(ROUND_ORDER)}
RoundIndex(round_name) ==
    (CHOOSE k \in 1..Len(ROUND_ORDER) : ROUND_ORDER[k] = round_name) - 1

EXPECTED_MAX_SEEDS ==
    [r \in Rounds |->
        CASE r = "First Round" -> 16
          [] r = "Second Round" -> 8
          [] r = "Sweet 16" -> 4
          [] r = "Elite 8" -> 2
          [] r = "Final Four" -> 1
          [] r = "Championship" -> 1]

\* ------------------------------------------------------------ collaborator
\* Teams of the roster: a 1 seed, a 5 seed and a 16 seed.
Fav == [name |-> "Fav", seed |-> 1, conference |-> "East"]
Mid == [name |-> "Mid", seed |-> 5, conference |-> "West"]
Dog == [name |-> "Dog", seed |-> 16, conference |-> "East"]
Field == [name |-> "Field", seed |-> 8, conference |-> "West"]
Teams == {Fav, Mid, Dog}
Roster == << Fav, Mid, Dog >>

RECURSIVE Listed(_, _)
\* The subsequence of the roster (in roster order) of the teams in S.
Listed(s, S) ==
    IF s = << >> THEN << >>
    ELSE (IF Head(s) \in S THEN << Head(s) >> ELSE << >>) \o Listed(Tail(s), S)

RECURSIVE Reverse(_)
Reverse(s) == IF s = << >> THEN << >> ELSE Reverse(Tail(s)) \o << Head(s) >>

\* The key orders in which simulate_tournament's mapping may list its rounds.
CanonicalKeys == ROUND_ORDER \o << "Champion" >>
ScrambledKeys == << "Champion" >> \o Reverse(ROUND_ORDER)

\* One full-tournament result: champion `c`, every other team t playing up
\* to round number depth[t]: the mapping simulate_tournament returns (its keys
\* in order, the teams listed for each round, the Champion) and bracket.games
\* as the simulation leaves them (team1, team2, winner).  `straight` selects the canonical key order with
\* the better seed listed as team1 of every game; otherwise the keys come
\* scrambled and the worse seed is listed first.
Outcome(c, depth, straight) ==
    LET reach(t) == IF t = c THEN Len(ROUND_ORDER) ELSE depth[t]
        order == IF straight THEN Roster ELSE Reverse(Roster)
        first(a, b) ==
            IF straight THEN (IF a.seed <= b.seed THEN a ELSE b)
            ELSE (IF a.seed <= b.seed THEN b ELSE a)
        second(a, b) == IF first(a, b) = a THEN b ELSE a
    IN [keys |-> IF straight THEN CanonicalKeys ELSE ScrambledKeys,
        teams |-> [r \in Rounds |->
                      Listed(order, {t \in Teams : reach(t) >= RoundIndex(r) + 1})],
        Champion |-> c,
        games |-> { [team1 |-> first(t, Field), team2 |-> second(t, Field),
                     winner |-> t, round |-> ROUND_ORDER[k]] :
                       <<t, k>> \in { <<u, m>> \in Teams \X (1..Len(ROUND_ORDER)) :
                                        m < reach(u) \/ u = c } }]

Depths == {1, 3}

\* The universe of results of the stochastic collaborator: the favourite
\* takes the title while the others go out in the first round or the third,
\* or one of the others takes it, with the keys scrambled.
Outcomes ==
    { Outcome(Fav, depth, TRUE) : depth \in [Teams -> Depths] }
    \cup { Outcome(Mid, [t \in Teams |-> 1], FALSE),
           Outcome(Dog, [t \in Teams |-> 3], FALSE) }

\* Results that differ in the champion only: the favourite wins every game
\* it plays, or another team takes the title.
ChampOutcomes ==
    { Outcome(c, [t \in Teams |-> 1], TRUE) : c \in Teams }


\* ------------------------------------------------------------------- state
VARIABLES
    num_pools,          \* self.num_pools
    entries_per_pool,   \* the argument of simulate_pools
    pools,              \* self.pools
    winning_brackets,   \* self.winning_brackets
    all_results,        \* self.all_results, a sequence of rows
    pc,                 \* "constructed", "loop", "done" or "aborted"
    i,                  \* the loop variable of simulate_pools
    error,              \* the exception that left simulate_pools, or "none"
    ret,                \* what the last report call returned (or raised)
    stub,               \* the collaborator: stochastic or a deterministic stub
    run,                \* which analyzer of the session this is (1, 2, ...)
    first_run           \* the reports of the first analyzer under a stub

vars ==
    << num_pools, entries_per_pool, pools, winning_brackets, all_results, pc, i,
       error, ret, stub, run, first_run >>

\* ------------------------------------------------------- simulation driver
\* The spread started one step late: 0.1 + ((j+1)/entries_per_pool)*0.3
UpsetFactorOffByOne(j, entries) ==
    FracAdd(Frac(1, 10), FracMul(Frac(j + 1, entries), Frac(3, 10)))

\* 0.1 + (j/entries_per_pool)*0.3
UpsetFactor(j, entries) ==
    FracAdd(Frac(1, 10), FracMul(Frac(j, entries), Frac(3, 10)))

\* f"Entry_{j+1}"
EntryName(j) == "Entry_" \o ToString(j + 1)

\* The upset factor of a game no entry has stamped.
Unset == [n |-> 0, d |-> 1]

\* create_teams_from_standings(self.standings): a fresh bracket, told apart
\* from every other by the pool it is made for and its slot there (0 for the
\* actual bracket, j+1 for entry j); its games carry no upset factor yet.
CreateBracket(pool_id, slot) ==
    [pool |-> pool_id, slot |-> slot,
     games |-> [g \in 1..GamesPerBracket |-> [upset_factor |-> Unset]]]

\* for game in entry_bracket.games: game.upset_factor = upset_factor
StampGames(bracket, upset_factor) ==
    [bracket EXCEPT !.games =
        [g \in DOMAIN bracket.games |->
            [bracket.games[g] EXCEPT !.upset_factor = upset_factor]]]

\* The entries a pool holds after the inner loop: (name, bracket) pairs.
BuildEntries(pool_id, entries) ==
    [k \in 1..entries |->
        << EntryName(k - 1),
           StampGames(CreateBracket(pool_id, k), UpsetFactor(k - 1, entries)) >>]

\* Pool(actual_bracket) followed by the add_entry calls.
BuildPool(pool_id, entries) ==
    [actual |-> CreateBracket(pool_id, 0),
     entries |-> BuildEntries(pool_id, entries),
     simulated |-> FALSE,
     ranked |-> << >>]

\* The lookup gone wrong: the entries under any other name.
MatchingOthers(entries, winning_entry) ==
    LET hits == SelectSeq(entries, LAMBDA entry : entry[1] # winning_entry)
    IN  [k \in DOMAIN hits |-> hits[k][2]]

\* [entry[1] for entry in pool.entries if entry[0] == winning_entry]
Matching(entries, winning_entry) ==
    LET hits == SelectSeq(entries, LAMBDA entry : entry[1] = winning_entry)
    IN  [k \in DOMAIN hits |-> hits[k][2]]

\* pool_results['pool_id'] = i
TagPool(pool_results, pool_id) ==
    [k \in DOMAIN pool_results |-> [name |-> pool_results[k].name, pool_id |-> pool_id]]

\* The table replacing all_results instead of being added to it.
ConcatResultsOverwriting(results, pool_results) == pool_results

\* pd.concat([self.all_results, pool_results])
ConcatResults(results, pool_results) == results \o pool_results

\* One pass of the loop body of simulate_pools for pool index `idx`, with the
\* collaborator failing at `fault` ("none", "create" or "simulate") and
\* ranking the entries as `ranked`.  The result holds the three collections
\* as the pass leaves them and the exception it raised.
PoolBody(ps, wb, ar, idx, entries, fault, ranked) ==
    IF fault = "create"
    THEN [pools |-> ps, winning_brackets |-> wb, all_results |-> ar,
          raised |-> "CollaboratorError"]
    ELSE
    LET pool == BuildPool(idx, entries)
        stored == Append(ps, pool)
    IN  IF fault = "simulate"
        THEN [pools |-> stored, winning_brackets |-> wb, all_results |-> ar,
              raised |-> "CollaboratorError"]
        ELSE
        LET simulated == Append(ps, [pool EXCEPT !.simulated = TRUE, !.ranked = ranked])
        IN  IF ranked = << >>
            THEN [pools |-> simulated, winning_brackets |-> wb, all_results |-> ar,
                  raised |-> "IndexError"]
            ELSE
            LET winning_entry == ranked[1].name
                found == Matching(pool.entries, winning_entry)
            IN  IF found = << >>
                THEN [pools |-> simulated, winning_brackets |-> wb,
                      all_results |-> ar, raised |-> "IndexError"]
                ELSE [pools |-> simulated,
                      winning_brackets |-> Append(wb, found[1]),
                      all_results |-> ConcatResults(ar, TagPool(ranked, idx)),
                      raised |-> "none"]

\* ----------------------------------------------- collaborator's behaviours
\* The ranked tables Pool.simulate_pool may return for a pool with `entries`
\* entries, one row per name: the stochastic collaborator puts any entry on
\* top, or a winner that was never registered; the stub puts on top the
\* winner it fixes for pools of this index's parity.  The other entries
\* follow in registration order.  A pool without entries ranks nothing.
Rankings(s, idx, entries) ==
    LET row(n) == [name |-> n]
        rest(top) == SelectSeq([k \in 1..entries |-> row(EntryName(k - 1))],
                               LAMBDA r : r.name # top)
        table(top) == << row(top) >> \o rest(top)
    IN  IF entries = 0 THEN { << >> }
        ELSE IF s.kind = "fixed"
        THEN { table(EntryName(s.winner[idx % 2] - 1)) }
        ELSE { table(EntryName(k - 1)) : k \in 1..entries } \cup { table("Nobody") }

\* Where the collaborator may raise during one pool.
Faults(s) == IF s.kind = "fixed" THEN {"none"} ELSE {"none", "create", "simulate"}

\* --------------------------------------------------------------- __init__
NoReport == [op |-> "none", raised |-> "none", columns |-> << >>, rows |-> << >>,
             results |-> << >>]

NoReports == [op \in {"analyze_upsets", "find_common_underdogs",
                      "analyze_champion_picks"} |-> NoReport]

\* __init__ with winning_brackets a list shared by every analyzer: the new
\* analyzer starts with the brackets of the last one.
ConstructShared ==
    /\ pc \in {"done", "aborted"}
    /\ ret = NoReport
    /\ run < MaxRuns
    /\ run' = run + 1
    /\ pools' = << >>
    /\ all_results' = << >>
    /\ pc' = "constructed"
    /\ i' = 0
    /\ error' = "none"
    /\ ret' = NoReport
    /\ UNCHANGED << num_pools, entries_per_pool, winning_brackets, stub, first_run >>

\* BracketAnalysis(standings, num_pools) once more, for another run of the
\* pipeline with the same arguments.
Construct ==
    /\ pc \in {"done", "aborted"}
    /\ ret = NoReport
    /\ run < MaxRuns
    /\ run' = run + 1
    /\ pools' = << >>
    /\ winning_brackets' = << >>
    /\ all_results' = << >>
    /\ pc' = "constructed"
    /\ i' = 0
    /\ error' = "none"
    /\ ret' = NoReport
    /\ UNCHANGED << num_pools, entries_per_pool, stub, first_run >>

\* --------------------------------------------------------- simulate_pools
SimulatePoolsBegin ==
    /\ pc = "constructed"
    /\ ret = NoReport
    /\ pc' = "loop"
    /\ i' = 0
    /\ UNCHANGED << num_pools, entries_per_pool, pools, winning_brackets,
                    all_results, error, ret, stub, run, first_run >>

\* The failure caught and the pool skipped.
AfterPoolSkipping(raised) == [pc |-> "loop", advance |-> 1]

\* Nothing in the loop catches: an exception leaves simulate_pools, and only
\* a pass without one moves on to the next pool.
AfterPool(raised) ==
    IF raised = "none" THEN [pc |-> "loop", advance |-> 1]
    ELSE [pc |-> "aborted", advance |-> 0]

PoolIteration ==
    /\ pc = "loop"
    /\ i < num_pools
    /\ \E fault \in Faults(stub), ranked \in Rankings(stub, i, entries_per_pool) :
          LET r == PoolBody(pools, winning_brackets, all_results, i,
                            entries_per_pool, fault, ranked)
          IN  /\ pools' = r.pools
              /\ winning_brackets' = r.winning_brackets
              /\ all_results' = r.all_results
              /\ error' = r.raised
              /\ pc' = AfterPool(r.raised).pc
              /\ i' = i + AfterPool(r.raised).advance
    /\ UNCHANGED << num_pools, entries_per_pool, ret, stub, run, first_run >>

SimulatePoolsReturn ==
    /\ pc = "loop"
    /\ i >= num_pools
    /\ pc' = "done"
    /\ UNCHANGED << num_pools, entries_per_pool, pools, winning_brackets,
                    all_results, i, error, ret, stub, run, first_run >>


\* ------------------------------------------------------- report machinery
\* Rows are sorted on a pair of keys: an integer, then a fraction, both
\* ascending (a descending column is keyed by its negation).
KeyLess(a, b) ==
    \/ a.major < b.major
    \/ a.major = b.major /\ FracLess(a.minor, b.minor)

\* DataFrame.sort_values on a short table whose rows carry the keys `keys`:
\* row q comes before row p when its key is smaller, or neither key is
\* smaller and q was there first (rows that compare equal keep their order).
SortRows(rows, keys) ==
    LET n == Len(rows)
        before(q, p) ==
            \/ KeyLess(keys[q], keys[p])
            \/ ~KeyLess(keys[p], keys[q]) /\ q < p
        rank(p) == Cardinality({ q \in 1..n : before(q, p) }) + 1
    IN  [r \in 1..n |-> rows[CHOOSE p \in 1..n : rank(p) = r]]

FracNeg(x) == [n |-> 0 - x.n, d |-> x.d]

RECURSIVE SumSeq(_)
SumSeq(s) == IF s = << >> THEN 0 ELSE Head(s) + SumSeq(Tail(s))

SeqMin(s) == CHOOSE m \in { s[k] : k \in DOMAIN s } : \A k \in DOMAIN s : m <= s[k]

SeqMax(s) == CHOOSE m \in { s[k] : k \in DOMAIN s } : \A k \in DOMAIN s : m >= s[k]

\* The keys of a dictionary filled by the updates `events` (each with a
\* key), in the order they were first inserted.
InsertionOrder(events) ==
    LET keys == { events[p].key : p \in DOMAIN events }
        first(key) == CHOOSE p \in DOMAIN events :
                          /\ events[p].key = key
                          /\ \A q \in 1..(p - 1) : events[q].key # key
        rank(key) == Cardinality({ other \in keys : first(other) < first(key) }) + 1
    IN  [r \in 1..Cardinality(keys) |-> CHOOSE key \in keys : rank(key) = r]

\* The values the updates `events` brought for `key`, in order.
ValuesOf(events, key) ==
    LET hits == SelectSeq(events, LAMBDA e : e.key = key)
    IN  [k \in DOMAIN hits |-> hits[k].value]

\* ---------------------------------------------------------- analyze_upsets
\* sum(1 for team in teams if any(t for t in bracket.games
\*                                if t.winner == team and t.winner.seed > t.team1.seed))
CountUpsets(teams, games) ==
    Cardinality({ p \in DOMAIN teams :
                    \E t \in games : t.winner = teams[p] /\ t.winner.seed > t.team1.seed })

\* Whether the round loop takes the key: if round_name != "Champion"
IsRoundKey(round_name) == round_name # "Champion"

RECURSIVE UpsetsOfBracket(_, _)
\* The inner loop of analyze_upsets over results.items(), from key `k` on:
\* the appends upset_stats[round_name].append(upsets) it makes, in order.
UpsetsOfBracket(results, k) ==
    IF k > Len(results.keys) THEN << >>
    ELSE LET round_name == results.keys[k]
         IN  (IF IsRoundKey(round_name)
              THEN << [key |-> round_name,
                       value |-> CountUpsets(results.teams[round_name], results.games)] >>
              ELSE << >>)
             \o UpsetsOfBracket(results, k + 1)

RECURSIVE UpsetAppends(_)
\* The outer loop: one result per winning bracket.
UpsetAppends(all) ==
    IF all = << >> THEN << >>
    ELSE UpsetsOfBracket(Head(all), 1) \o UpsetAppends(Tail(all))

\* The defaultdict(list) after the loops: one entry per round, in insertion
\* order, with the samples appended to it.
UpsetStats(all) ==
    LET appends == UpsetAppends(all)
        order == InsertionOrder(appends)
    IN  [k \in DOMAIN order |->
            [key |-> order[k], samples |-> ValuesOf(appends, order[k])]]

\* One row of the summary: mean, sample standard deviation (held as its
\* square, the sample variance; NaN for a single sample), minimum, maximum.
SummaryRow(entry) ==
    LET x == entry.samples
        n == Len(x)
        sum == SumSeq(x)
        squares == SumSeq([k \in DOMAIN x |-> x[k] * x[k]])
    IN  [round |-> entry.key,
         avg_upsets |-> Frac(sum, n),
         std_upsets |-> IF n = 1 THEN [nan |-> TRUE, squared |-> Frac(0, 1)]
                        ELSE [nan |-> FALSE,
                              squared |-> Frac(n * squares - sum * sum, n * (n - 1))],
         min_upsets |-> SeqMin(x),
         max_upsets |-> SeqMax(x)]

\* The summary left in the order of its columns.
UpsetSortKeyUnsorted(row) == [major |-> 0, minor |-> Frac(0, 1)]

\* summary['round_order'] = summary['round'].map(...); sort_values('round_order')
UpsetSortKey(row) == [major |-> RoundIndex(row.round), minor |-> Frac(0, 1)]

\* analyze_upsets with `all` the results the brackets' re-simulations gave.
analyze_upsets(all) ==
    LET upset_stats == UpsetStats(all)
    IN  IF \E k \in DOMAIN upset_stats :
               Len(upset_stats[k].samples) # Len(upset_stats[1].samples)
        THEN [op |-> "analyze_upsets", raised |-> "ValueError", columns |-> << >>,
              rows |-> << >>, results |-> all]
        ELSE [op |-> "analyze_upsets", raised |-> "none",
              columns |-> << "round", "avg_upsets", "std_upsets", "min_upsets",
                             "max_upsets" >>,
              rows |-> LET summary == [k \in DOMAIN upset_stats |->
                                          SummaryRow(upset_stats[k])]
                       IN  SortRows(summary,
                                    [k \in DOMAIN summary |-> UpsetSortKey(summary[k])]),
              results |-> all]


\* --------------------------------------------------- find_common_underdogs
\* The threshold taken as exclusive.
IsUnderdogOrEqual(seed, expected_max_seed) == seed >= expected_max_seed

\* if team.seed > expected_max_seed
IsUnderdog(seed, expected_max_seed) == seed > expected_max_seed

\* The defaultdict(int) after the increments `incs` (counts[key] += 1 each):
\* one entry per key, in insertion order, with its count.
Tally(incs) ==
    LET order == InsertionOrder(incs)
    IN  [k \in DOMAIN order |->
            [key |-> order[k], count |-> Len(ValuesOf(incs, order[k]))]]

\* for team in teams: if team.seed > expected_max_seed:
\*     upset_counts[(round_name, team.seed, team.name)] += 1
UnderdogsOfRound(round_name, teams) ==
    LET hits == SelectSeq(teams, LAMBDA team :
                    IsUnderdog(team.seed, EXPECTED_MAX_SEEDS[round_name]))
    IN  [k \in DOMAIN hits |->
            [key |-> << round_name, hits[k].seed, hits[k].name >>, value |-> 1]]

RECURSIVE UnderdogsOfBracket(_, _)
UnderdogsOfBracket(results, k) ==
    IF k > Len(results.keys) THEN << >>
    ELSE LET round_name == results.keys[k]
         IN  (IF IsRoundKey(round_name)
              THEN UnderdogsOfRound(round_name, results.teams[round_name])
              ELSE << >>)
             \o UnderdogsOfBracket(results, k + 1)

RECURSIVE UnderdogIncrements(_)
UnderdogIncrements(all) ==
    IF all = << >> THEN << >>
    ELSE UnderdogsOfBracket(Head(all), 1) \o UnderdogIncrements(Tail(all))

UnderdogCounts(all) == Tally(UnderdogIncrements(all))

\* A percentage instead of a rate.
FrequencyPercent(count, pools_total) == Frac(count * 100, pools_total)

\* count / self.num_pools
Frequency(count, pools_total) == Frac(count, pools_total)

\* Both columns ascending.
UnderdogSortKeyAscending(row) ==
    [major |-> RoundIndex(row.round), minor |-> row.frequency]

\* sort_values(['round_order', 'frequency'], ascending=[True, False])
UnderdogSortKey(row) ==
    [major |-> RoundIndex(row.round), minor |-> FracNeg(row.frequency)]

\* The columns of the table returned when upsets_df.empty
EmptyUnderdogColumns == << "round", "seed", "team", "frequency" >>

\* The columns after rename(columns={"round": "make_it_to"})
UnderdogColumns == << "make_it_to", "seed", "team", "frequency" >>

find_common_underdogs(all, pools_total) ==
    LET upset_counts == UnderdogCounts(all)
        upsets_df == [k \in DOMAIN upset_counts |->
                        [round |-> upset_counts[k].key[1],
                         seed |-> upset_counts[k].key[2],
                         team |-> upset_counts[k].key[3],
                         frequency |-> Frequency(upset_counts[k].count, pools_total)]]
        sorted == SortRows(upsets_df,
                           [k \in DOMAIN upsets_df |-> UnderdogSortKey(upsets_df[k])])
    IN  IF upsets_df = << >>
        THEN [op |-> "find_common_underdogs", raised |-> "none",
              columns |-> EmptyUnderdogColumns, rows |-> << >>, results |-> all]
        ELSE [op |-> "find_common_underdogs", raised |-> "none",
              columns |-> UnderdogColumns,
              rows |-> [k \in DOMAIN sorted |->
                          [make_it_to |-> sorted[k].round, seed |-> sorted[k].seed,
                           team |-> sorted[k].team, frequency |-> sorted[k].frequency]],
              results |-> all]

\* -------------------------------------------------- analyze_champion_picks
\* champion = results['Champion']; champion_counts[key] += 1
ChampionCounts(all) ==
    Tally([k \in DOMAIN all |->
             [key |-> << all[k].Champion.seed, all[k].Champion.name,
                         all[k].Champion.conference >>,
              value |-> 1]])

\* sort_values('frequency', ascending=False)
ChampionSortKey(row) == [major |-> 0, minor |-> FracNeg(row.frequency)]

\* An empty list of rows makes a frame without columns, and sorting it by
\* 'frequency' raises KeyError.
analyze_champion_picks(all, pools_total) ==
    LET champion_counts == ChampionCounts(all)
        champions_df == [k \in DOMAIN champion_counts |->
                           [seed |-> champion_counts[k].key[1],
                            team |-> champion_counts[k].key[2],
                            conference |-> champion_counts[k].key[3],
                            frequency |-> Frequency(champion_counts[k].count,
                                                    pools_total)]]
    IN  IF champions_df = << >>
        THEN [op |-> "analyze_champion_picks", raised |-> "KeyError",
              columns |-> << >>, rows |-> << >>, results |-> all]
        ELSE [op |-> "analyze_champion_picks", raised |-> "none",
              columns |-> << "seed", "team", "conference", "frequency" >>,
              rows |-> SortRows(champions_df,
                                [k \in DOMAIN champions_df |->
                                    ChampionSortKey(champions_df[k])]),
              results |-> all]

\* ------------------------------------------------------------ the reports
\* The results of re-simulating every winning bracket, in list order.
Resimulations(s, wb) ==
    IF s.kind = "fixed"
    THEN { [k \in DOMAIN wb |-> s.outcome[wb[k].slot]] }
    ELSE [DOMAIN wb -> s.universe]

\* The reports of the first analyzer are kept when it ran the whole pipeline
\* against a deterministic stub.
Remember(report) ==
    IF stub.kind = "fixed" /\ run = 1 /\ pc = "done"
    THEN [first_run EXCEPT ![report.op] = report]
    ELSE first_run

\* A report is asked for between calls of the driver, once the caller is
\* through with the previous one.
Idle == pc \in {"constructed", "done", "aborted"} /\ ret = NoReport

\* print(...to_string(index=False)): the caller drops the table it was given.
PrintReport ==
    /\ ret # NoReport
    /\ ret' = NoReport
    /\ UNCHANGED << num_pools, entries_per_pool, pools, winning_brackets,
                    all_results, pc, i, error, stub, run, first_run >>

AnalyzeUpsets ==
    /\ Idle
    /\ \E all \in Resimulations(stub, winning_brackets) :
          /\ ret' = analyze_upsets(all)
          /\ first_run' = Remember(analyze_upsets(all))
    /\ UNCHANGED << num_pools, entries_per_pool, pools, winning_brackets,
                    all_results, pc, i, error, stub, run >>

FindCommonUnderdogs ==
    /\ Idle
    /\ \E all \in Resimulations(stub, winning_brackets) :
          /\ ret' = find_common_underdogs(all, num_pools)
          /\ first_run' = Remember(find_common_underdogs(all, num_pools))
    /\ UNCHANGED << num_pools, entries_per_pool, pools, winning_brackets,
                    all_results, pc, i, error, stub, run >>

AnalyzeChampionPicks ==
    /\ Idle
    /\ \E all \in Resimulations(stub, winning_brackets) :
          /\ ret' = analyze_champion_picks(all, num_pools)
          /\ first_run' = Remember(analyze_champion_picks(all, num_pools))
    /\ UNCHANGED << num_pools, entries_per_pool, pools, winning_brackets,
                    all_results, pc, i, error, stub, run >>

\* ---------------------------------------------------------- specifications
Fresh ==
    /\ pools = << >>
    /\ winning_brackets = << >>
    /\ all_results = << >>
    /\ pc = "constructed"
    /\ i = 0
    /\ error = "none"
    /\ ret = NoReport
    /\ run = 1
    /\ first_run = NoReports

\* One analyzer with a stochastic collaborator, as BracketAnalysis(standings,
\* num_pools) leaves it, and the argument simulate_pools will be given.
Init ==
    /\ num_pools \in 0..MaxPools
    /\ entries_per_pool \in 0..MaxEntries
    /\ stub = [kind |-> "random", universe |-> Outcomes]
    /\ Fresh

Next ==
    \/ SimulatePoolsBegin
    \/ PoolIteration
    \/ SimulatePoolsReturn
    \/ AnalyzeUpsets
    \/ FindCommonUnderdogs
    \/ AnalyzeChampionPicks
    \/ PrintReport

Spec == Init /\ [][Next]_vars

\* One analyzer over many pools whose brackets differ in the champion only.
InitLong ==
    /\ num_pools \in 1..LongPools
    /\ entries_per_pool = 1
    /\ stub = [kind |-> "random", universe |-> ChampOutcomes]
    /\ Fresh

SpecLong == InitLong /\ [][Next]_vars

\* The results a deterministic stub may be built to give.
StubOutcomes ==
    { Outcome(Fav, [t \in Teams |-> 1], TRUE),
      Outcome(Dog, [t \in Teams |-> 3], TRUE),
      Outcome(Mid, [t \in Teams |-> 3], FALSE) }

\* Analyzers built one after the other against the same deterministic stub:
\* the winner of a pool is fixed by the pool's index, the result of a
\* bracket by its slot in its pool.
InitStub ==
    /\ num_pools \in 1..MaxPools
    /\ entries_per_pool \in 1..MaxEntries
    /\ \E winner \in [0..1 -> 1..MaxEntries], outcome \in [1..MaxEntries -> StubOutcomes] :
          stub = [kind |-> "fixed", winner |-> winner, outcome |-> outcome]
    /\ Fresh

NextStub == Next \/ Construct

SpecStub == InitStub /\ [][NextStub]_vars


\* ------------------------------------------------------------------ claims
\* The rows of all_results tagged with pool `id`.
RowsOfPool(id) == SelectSeq(all_results, LAMBDA row : row.pool_id = id)

\* C1: for num_pools >= 1 and entries_per_pool >= 1, once simulate_pools has
\* returned, winning_brackets holds exactly num_pools brackets and all_results
\* holds exactly the pool ids 0..num_pools-1, each on as many rows as the
\* simulate_pool call of that pool returned.
C1_OneWinnerAndOneBlockPerPool ==
    (pc = "done" /\ num_pools >= 1 /\ entries_per_pool >= 1) =>
        /\ Len(winning_brackets) = num_pools
        /\ { all_results[k].pool_id : k \in DOMAIN all_results } = 0..(num_pools - 1)
        /\ Len(pools) = num_pools
        /\ \A id \in 0..(num_pools - 1) :
              /\ pools[id + 1].simulated
              /\ Len(RowsOfPool(id)) = Len(pools[id + 1].ranked)

C1_Witness ==
    /\ pc = "done"
    /\ num_pools = 2
    /\ entries_per_pool = 2
    /\ Len(all_results) = 4

RECURSIVE FracSum(_)
FracSum(column) ==
    IF column = << >> THEN Frac(0, 1)
    ELSE FracAdd(Head(column), FracSum(Tail(column)))

\* Whether the last report is the table `op` returned after a whole run.
Reported(op) == pc = "done" /\ ret.op = op /\ ret.raised = "none"

\* The frequency column of the last report.
FrequencyColumn == [k \in DOMAIN ret.rows |-> ret.rows[k].frequency]

\* C2 as stated: the frequencies of the rows of analyze_champion_picks, which
\* are doubles, add up to exactly 1.0.
C2_FloatSumIsExactlyOne ==
    Reported("analyze_champion_picks") =>
        DSum([k \in DOMAIN ret.rows |->
                Double(ret.rows[k].frequency.n, ret.rows[k].frequency.d)]) = DOne

\* C2 as amended: every winning bracket is counted for exactly one key, so
\* the rows have distinct keys, each frequency is the number of brackets with
\* that champion over num_pools, and as exact quotients they add up to 1.
C2_ExactQuotientsSumToOne ==
    Reported("analyze_champion_picks") =>
        /\ \A p, q \in DOMAIN ret.rows :
              (/\ ret.rows[p].seed = ret.rows[q].seed
               /\ ret.rows[p].team = ret.rows[q].team
               /\ ret.rows[p].conference = ret.rows[q].conference) => p = q
        /\ \A p \in DOMAIN ret.rows :
              LET picked == { k \in DOMAIN ret.results :
                                /\ ret.results[k].Champion.seed = ret.rows[p].seed
                                /\ ret.results[k].Champion.name = ret.rows[p].team
                                /\ ret.results[k].Champion.conference
                                      = ret.rows[p].conference }
              IN  /\ picked # {}
                  /\ ret.rows[p].frequency.n * num_pools
                        = Cardinality(picked) * ret.rows[p].frequency.d
        /\ \A k \in DOMAIN ret.results :
              \E p \in DOMAIN ret.rows : ret.rows[p].team = ret.results[k].Champion.name
        /\ FracSum(FrequencyColumn) = Frac(1, 1)

C2_Witness ==
    /\ Reported("analyze_champion_picks")
    /\ num_pools = 6
    /\ Len(ret.rows) = 3
    /\ ret.rows[1].frequency = Frac(3, 6)
    /\ ret.rows[2].frequency = Frac(2, 6)
    /\ ret.rows[3].frequency = Frac(1, 6)

\* C3: no row of find_common_underdogs is for the First Round.
C3_NoFirstRoundUnderdog ==
    (ret.op = "find_common_underdogs" /\ ret.rows # << >>) =>
        \A p \in DOMAIN ret.rows : ret.rows[p].make_it_to # "First Round"

\* A 16 seed played the First Round of a re-simulated bracket and the table
\* has rows.
C3_Witness ==
    /\ ret.op = "find_common_underdogs"
    /\ ret.rows # << >>
    /\ \E k \in DOMAIN ret.results :
          \E p \in DOMAIN ret.results[k].teams["First Round"] :
              ret.results[k].teams["First Round"][p].seed = 16

\* The winning brackets in which team (seed, name) is listed for the round
\* with a seed above the round's expected maximum.
BracketsWithUnderdog(results, round_name, seed, name) ==
    { k \in DOMAIN results :
        /\ seed > EXPECTED_MAX_SEEDS[round_name]
        /\ \E p \in DOMAIN results[k].teams[round_name] :
              /\ results[k].teams[round_name][p].seed = seed
              /\ results[k].teams[round_name][p].name = name }

\* C4: every row of find_common_underdogs has frequency count / num_pools,
\* count the number of winning brackets where the row's team was above the
\* expected maximum seed of the row's round, with 0 < frequency <= 1; the rows
\* are in canonical round order and, within a round, in descending frequency.
C4_UnderdogFrequenciesAndOrder ==
    (ret.op = "find_common_underdogs" /\ ret.rows # << >>) =>
        /\ \A p \in DOMAIN ret.rows :
              LET row == ret.rows[p]
                  count == Cardinality(BracketsWithUnderdog(
                               ret.results, row.make_it_to, row.seed, row.team))
              IN  /\ row.frequency.n * num_pools = count * row.frequency.d
                  /\ row.frequency.n > 0
                  /\ row.frequency.n <= row.frequency.d
        /\ \A p \in 1..(Len(ret.rows) - 1) :
              LET a == ret.rows[p]
                  b == ret.rows[p + 1]
              IN  \/ RoundIndex(a.make_it_to) < RoundIndex(b.make_it_to)
                  \/ /\ a.make_it_to = b.make_it_to
                     /\ ~FracLess(a.frequency, b.frequency)

\* Two rows of one round with different frequencies, after rows of an
\* earlier round, from a team that was counted after the rarer one.
C4_Witness ==
    /\ ret.op = "find_common_underdogs"
    /\ num_pools = 2
    /\ \E p \in 1..(Len(ret.rows) - 1) :
          /\ ret.rows[p].make_it_to = "Sweet 16"
          /\ ret.rows[p + 1].make_it_to = "Sweet 16"
          /\ ret.rows[p].team = "Dog"
          /\ ret.rows[p + 1].team = "Mid"
          /\ ret.rows[p].frequency = Frac(1, 1)
          /\ ret.rows[p + 1].frequency = Frac(1, 2)
    /\ ret.rows[1].make_it_to = "Second Round"

\* The rounds among ROUND_ORDER that some re-simulated result lists.
RoundsSimulated(results) ==
    SelectSeq(ROUND_ORDER,
              LAMBDA r : \E k \in DOMAIN results :
                             \E q \in DOMAIN results[k].keys : results[k].keys[q] = r)

\* C5: the rows of analyze_upsets are the non-Champion rounds of the
\* simulated results, one row each, in canonical round order; "Champion" is
\* never a row.
C5_UpsetRowsInRoundOrder ==
    (ret.op = "analyze_upsets" /\ ret.raised = "none") =>
        /\ [p \in DOMAIN ret.rows |-> ret.rows[p].round] = RoundsSimulated(ret.results)
        /\ \A p \in DOMAIN ret.rows : ret.rows[p].round # "Champion"

\* The first bracket's result listed its keys scrambled, Champion first.
C5_Witness ==
    /\ ret.op = "analyze_upsets"
    /\ Len(ret.results) = 2
    /\ ret.results[1].keys = ScrambledKeys
    /\ ret.results[2].keys = CanonicalKeys
    /\ Len(ret.rows) = 6

\* C6 as stated: the empty table of find_common_underdogs carries the columns
\* of the non-empty one, the round column under the label make_it_to.
C6_EmptyTableHasOutputSchema ==
    (ret.op = "find_common_underdogs" /\ ret.rows = << >>) =>
        ret.columns = << "make_it_to", "seed", "team", "frequency" >>

C8_EntryNamesAndUpsetFactors ==
    /\ \A p \in DOMAIN pools :
          /\ Len(pools[p].entries) = entries_per_pool
          /\ \A k \in DOMAIN pools[p].entries :
                LET name == pools[p].entries[k][1]
                    bracket == pools[p].entries[k][2]
                    j == k - 1
                IN  /\ name = "Entry_" \o ToString(j + 1)
                    /\ bracket.games # << >>
                    /\ \A g \in DOMAIN bracket.games :
                          LET f == bracket.games[g].upset_factor
                          IN  /\ f.n * (10 * entries_per_pool)
                                    = f.d * (entries_per_pool + 3 * j)
                              /\ j = 0 => f = Frac(1, 10)
                              /\ FracLess(f, Frac(4, 10))
                              /\ k > 1 =>
                                    FracLess(
                                        pools[p].entries[k - 1][2].games[g].upset_factor,
                                        f)
                              /\ f = pools[1].entries[k][2].games[g].upset_factor
    /\ UpsetFactor(0, 10) = Frac(1, 10)
    /\ UpsetFactor(9, 10) = Frac(37, 100)

C8_Witness ==
    /\ Len(pools) = 2
    /\ entries_per_pool = 2
    /\ pools[2].entries[2][1] = "Entry_2"
    /\ pools[2].entries[2][2].games[1].upset_factor = Frac(1, 4)

\* The collections hold exactly the results of the pools 0..n-1.
HoldsPools(n) ==
    /\ Len(winning_brackets) = n
    /\ \A k \in 1..n : winning_brackets[k].pool = k - 1
    /\ { all_results[k].pool_id : k \in DOMAIN all_results } = 0..(n - 1)
    /\ \A k \in 1..(Len(all_results) - 1) :
          all_results[k].pool_id <= all_results[k + 1].pool_id

\* C9: a failure in pool i leaves simulate_pools at once.  No pool is
\* skipped (the loop never moves on without the pool's results), and from the
\* failure on the run stays aborted at pool i with winning_brackets and
\* all_results holding exactly the results of the pools before i and no
\* later pool built.
C9_FailureAbortsTheRun ==
    /\ [](pc \in {"loop", "done", "aborted"} => HoldsPools(i))
    /\ [](pc = "aborted" =>
             /\ error # "none"
             /\ i < num_pools
             /\ Len(pools) <= i + 1)
    /\ [](pc \in {"loop", "done"} => error = "none")
    /\ [][pc = "aborted" =>
             /\ pc' = "aborted"
             /\ UNCHANGED << pools, winning_brackets, all_results, i, error >>]_vars

\* Pool 1 of 2 failed after pool 0 went through.
C9_Witness ==
    /\ pc = "aborted"
    /\ num_pools = 2
    /\ i = 1
    /\ error = "IndexError"
    /\ Len(winning_brackets) = 1
    /\ Len(pools) = 2

\* C10: winning_brackets[k] is the bracket registered in pool k-1 under the
\* name on the first row of that pool's ranking: one of the pool's own entry
\* brackets, not its actual bracket, not a bracket of another pool.
C10_WinnerIsTopRankedEntry ==
    \A k \in DOMAIN winning_brackets :
        LET pool == pools[k]
            top == pool.ranked[1].name
        IN  /\ pool.simulated
            /\ \E e \in DOMAIN pool.entries :
                  /\ pool.entries[e][1] = top
                  /\ pool.entries[e][2] = winning_brackets[k]
            /\ winning_brackets[k] # pool.actual
            /\ winning_brackets[k].pool = k - 1
            /\ winning_brackets[k].slot >= 1

\* The second entry won pool 0 and the first entry won pool 1.
C10_Witness ==
    /\ pc = "done"
    /\ Len(winning_brackets) = 2
    /\ winning_brackets[1].slot = 2
    /\ winning_brackets[2].slot = 1
    /\ pools[1].ranked[1].name = "Entry_2"

====
